---- MODULE Spec2Model ----
(***************************************************************************)
(* Model of doxygenize_cmake_options.py: one run of main(), which resolves *)
(* an input path, checks that it names a regular file, extracts every      *)
(* option() declaration with a regular expression, formats the records as  *)
(* a table and prints it.  Text is a sequence of one-character strings and *)
(* the regular expression is evaluated character by character.             *)
(***************************************************************************)
EXTENDS Integers, Sequences, FiniteSets, TLC

VARIABLES sys_argv, fs, decls, pc, cmake_path, options, doxygen_doc,
          stdout, stderr, exitCode, calls

vars == <<sys_argv, fs, decls, pc, cmake_path, options, doxygen_doc,
          stdout, stderr, exitCode, calls>>

(***************************************************************************)
(* Bound of the input space: the largest number of declaration-like        *)
(* segments an input file is built from.                                   *)
(***************************************************************************)
MaxDecls == 2

(***************************************************************************)
(* Characters.                                                             *)
(***************************************************************************)
Uppers ==
    <<"A","B","C","D","E","F","G","H","I","J","K","L","M","N","O","P","Q","R",
      "S","T","U","V","W","X","Y","Z">>

Lowers ==
    <<"a","b","c","d","e","f","g","h","i","j","k","l","m","n","o","p","q","r",
      "s","t","u","v","w","x","y","z">>

Digits == {"0","1","2","3","4","5","6","7","8","9"}

UpperSet == {Uppers[k] : k \in 1..Len(Uppers)}

LowerSet == {Lowers[k] : k \in 1..Len(Lowers)}

\* \s of the pattern
IsSpace(c) == c \in {" ", "\t", "\n", "\r"}

\* [A-Za-z0-9_-] of the pattern
IsNameChar(c) == c \in UpperSet \cup LowerSet \cup Digits \cup {"_", "-"}

\* [^"] of the pattern
IsNotQuote(c) == c # "\""

ToLower(c) ==
    IF c \in UpperSet
    THEN Lowers[CHOOSE k \in 1..Len(Uppers) : Uppers[k] = c]
    ELSE c

ToUpper(c) ==
    IF c \in LowerSet
    THEN Uppers[CHOOSE k \in 1..Len(Lowers) : Lowers[k] = c]
    ELSE c

\* a literal character of the pattern against a character of the text, as
\* re.IGNORECASE compares them
CharEqCaseSensitive(p, c) == p = c

CharEq(p, c) == ToLower(p) = ToLower(c)

(***************************************************************************)
(* The pattern of parse_cmake_options, piece by piece.  Each piece takes   *)
(* the text and a position and returns the position after the piece, or 0  *)
(* when the piece does not match there.                                    *)
(***************************************************************************)
KeywordLit == <<"o","p","t","i","o","n">>

TokenAlternativesWithYes ==
    << <<"O","N">>, <<"O","F","F">>, <<"T","R","U","E">>,
       <<"F","A","L","S","E">>, <<"Y","E","S">> >>

TokenAlternatives ==
    << <<"O","N">>, <<"O","F","F">>, <<"T","R","U","E">>,
       <<"F","A","L","S","E">> >>

\* a literal string of the pattern at position i
MatchLit(text, i, lit) ==
    IF /\ i + Len(lit) - 1 <= Len(text)
       /\ \A k \in 1..Len(lit) : CharEq(lit[k], text[i + k - 1])
    THEN i + Len(lit)
    ELSE 0

\* greedy run of whitespace starting at i: the position after it
RECURSIVE SkipSpace(_, _)
SkipSpace(text, i) ==
    IF i <= Len(text) /\ IsSpace(text[i])
    THEN SkipSpace(text, i + 1)
    ELSE i

\* greedy run of name characters starting at i
RECURSIVE SkipName(_, _)
SkipName(text, i) ==
    IF i <= Len(text) /\ IsNameChar(text[i])
    THEN SkipName(text, i + 1)
    ELSE i

\* greedy run of non-quote characters starting at i
RECURSIVE SkipNotQuote(_, _)
SkipNotQuote(text, i) ==
    IF i <= Len(text) /\ IsNotQuote(text[i])
    THEN SkipNotQuote(text, i + 1)
    ELSE i

\* \s* : zero or more whitespace characters
OptSpaceNone(text, i) == i

OptSpace(text, i) == SkipSpace(text, i)

\* \s+ between the name and the opening quote: at least one
NameSepOptional(text, i) == SkipSpace(text, i)

NameSep(text, i) ==
    IF SkipSpace(text, i) > i THEN SkipSpace(text, i) ELSE 0

\* one literal character
MatchChar(text, i, ch) ==
    IF i <= Len(text) /\ text[i] = ch THEN i + 1 ELSE 0

\* \s*\) : the end of the pattern
MatchTail(text, i) == MatchChar(text, OptSpace(text, i), ")")

\* (?:(ON|OFF|TRUE|FALSE))?\s*\) : the alternatives are tried in order and
\* then the empty alternative; the first one after which the tail matches
\* wins.  Returns the end of the match and the text of group 3 (<<>> when
\* the group did not take part).
RECURSIVE MatchDefault(_, _, _)
MatchDefault(text, i, k) ==
    IF k > Len(TokenAlternatives)
    THEN [end |-> MatchTail(text, i), group3 |-> <<>>]
    ELSE LET j == MatchLit(text, i, TokenAlternatives[k])
         IN  IF j # 0 /\ MatchTail(text, j) # 0
             THEN [end |-> MatchTail(text, j),
                   group3 |-> SubSeq(text, i, j - 1)]
             ELSE MatchDefault(text, i, k + 1)

NoMatch == [end |-> 0, group1 |-> <<>>, group2 |-> <<>>, group3 |-> <<>>]

\* the whole pattern anchored at position i
MatchAt(text, i) ==
    LET a == MatchLit(text, i, KeywordLit)
        b == IF a = 0 THEN 0 ELSE MatchChar(text, OptSpace(text, a), "(")
        c == IF b = 0 THEN 0 ELSE OptSpace(text, b)
        d == IF c = 0 THEN 0 ELSE SkipName(text, c)
        e == IF d = 0 \/ d = c THEN 0 ELSE NameSep(text, d)
        f == IF e = 0 THEN 0 ELSE MatchChar(text, e, "\"")
        g == IF f = 0 THEN 0 ELSE SkipNotQuote(text, f)
        h == IF g = 0 THEN 0 ELSE MatchChar(text, g, "\"")
        t == IF h = 0 THEN [end |-> 0, group3 |-> <<>>]
             ELSE MatchDefault(text, OptSpace(text, h), 1)
    IN  IF t.end = 0 THEN NoMatch
        ELSE [end |-> t.end, group1 |-> SubSeq(text, c, d - 1),
              group2 |-> SubSeq(text, f, g - 1), group3 |-> t.group3]

\* position of the first character after the next line break at or after i
RECURSIVE NextLineStart(_, _)
NextLineStart(text, i) ==
    IF i > Len(text) THEN i
    ELSE IF text[i] = "\n" THEN i + 1
    ELSE NextLineStart(text, i + 1)

\* a scan that tries the pattern only at the start of each line
RECURSIVE FindIterLineAnchored(_, _)
FindIterLineAnchored(text, pos) ==
    IF pos > Len(text) THEN <<>>
    ELSE LET m == MatchAt(text, pos)
         IN  IF m.end # 0
             THEN <<m>> \o FindIterLineAnchored(text, m.end)
             ELSE FindIterLineAnchored(text, NextLineStart(text, pos))

\* re.finditer: the non-overlapping matches from pos on, left to right
RECURSIVE FindIter(_, _)
FindIter(text, pos) ==
    IF pos > Len(text) THEN <<>>
    ELSE LET m == MatchAt(text, pos)
         IN  IF m.end # 0
             THEN <<m>> \o FindIter(text, m.end)
             ELSE FindIter(text, pos + 1)

OffToken == <<"O","F","F">>

\* match.group(3) if match.group(3) else "OFF"
DefaultValueAsCaptured(group3) == group3

DefaultValue(group3) == IF group3 # <<>> THEN group3 ELSE OffToken

RecordOf(m) ==
    [name |-> m.group1, description |-> m.group2,
     default |-> DefaultValue(m.group3)]

\* the loop over the matches of the content
RECURSIVE RecordsOfUniqueNames(_)
RecordsOfUniqueNames(ms) ==
    IF ms = <<>> THEN <<>>
    ELSE LET rest == RecordsOfUniqueNames(SubSeq(ms, 1, Len(ms) - 1))
             r == RecordOf(ms[Len(ms)])
         IN  IF \E k \in 1..Len(rest) : rest[k].name = r.name
             THEN rest
             ELSE Append(rest, r)

RecordsOf(ms) == [k \in 1..Len(ms) |-> RecordOf(ms[k])]

ExtractOptions(content) == RecordsOf(FindIter(content, 1))

(***************************************************************************)
(* The file system and the read of parse_cmake_options.                    *)
(***************************************************************************)
DefaultPathName == "CMakeLists.txt"

OtherPathName == "opts.cmake"

Paths == {DefaultPathName, OtherPathName}

\* os.path.isfile
IsFileOrDir(file) == file.kind \in {"file", "dir"}

IsFile(file) == file.kind = "file"

\* open(...) and f.read(): fails on anything that is not a readable file
ReadSucceeds(file) == file.kind = "file" /\ file.readable

ReadErrorLine(path) == <<"Error reading file", path>>

NotFoundLine(path) == <<"Error: File not found.", path>>

ReportReadErrorSilently(err, path) == err

ReportReadError(err, path) == Append(err, ReadErrorLine(path))

\* parse_cmake_options: the records and the error channel afterwards
ParseCMakeOptions(files, path, err) ==
    IF ReadSucceeds(files[path])
    THEN [options |-> ExtractOptions(files[path].content), stderr |-> err]
    ELSE [options |-> <<>>, stderr |-> ReportReadError(err, path)]

(***************************************************************************)
(* generate_doxygen_table.                                                 *)
(***************************************************************************)
\* the character U+0060, which a TLA+ string literal cannot hold
Backtick == "U+0060"

IntroLine ==
    <<"T","h","e"," ","f","o","l","l","o","w","i","n","g"," ","C","M","a","k",
      "e"," ","b","u","i","l","d"," ","o","p","t","i","o","n","s"," ","c","a",
      "n"," ","b","e"," ","u","s","e","d"," ","t","o"," ","c","o","n","f","i",
      "g","u","r","e"," ","t","h","e"," ","b","u","i","l","d"," ","b","y"," ",
      "s","e","t","t","i","n","g"," ","t","h","e","m"," ","w","i","t","h"," ",
      Backtick,"-","D","<","O","P","T","I","O","N",">","=","<","V","A","L","U",
      "E",">",Backtick,".">>

HeaderLine ==
    <<"|"," ","O","p","t","i","o","n"," ","|"," ","D","e","s","c","r","i","p",
      "t","i","o","n"," ","|"," ","D","e","f","a","u","l","t"," ","|">>

SeparatorLine ==
    <<"|","-","-","-","-","-","-","-","-","|","-","-","-","-","-","-","-","-",
      "-","-","-","-","-","|","-","-","-","-","-","-","-","-","-","|">>

PrefixLine ==
    <<"|"," ","C","M","A","K","E","_","I","N","S","T","A","L","L","_","P","R",
      "E","F","I","X"," ","|"," ","I","n","s","t","a","l","l","a","t","i","o",
      "n"," ","p","a","t","h"," ","|"," ","/","u","s","r","/","l","o","c","a",
      "l"," ","|">>

NoOptionsMsg ==
    <<"N","o"," ","C","M","a","k","e"," ","o","p","t","i","o","n","s"," ","f",
      "o","u","n","d",".">>

TableHead == <<IntroLine, <<>>, HeaderLine, SeparatorLine, PrefixLine>>

\* f"| {name} | {description} | {default} |"
RowOf(option) ==
    <<"|", " ">> \o option.name \o <<" ", "|", " ">> \o option.description
        \o <<" ", "|", " ">> \o option.default \o <<" ", "|">>

\* "\n".join(lines)
RECURSIVE JoinLines(_)
JoinLines(lines) ==
    IF lines = <<>> THEN <<>>
    ELSE IF Len(lines) = 1 THEN lines[1]
    ELSE lines[1] \o <<"\n">> \o JoinLines(Tail(lines))

GenerateDoxygenTableNoEmptyCheck(opts) ==
    JoinLines(TableHead \o [k \in 1..Len(opts) |-> RowOf(opts[k])])

GenerateDoxygenTable(opts) ==
    IF opts = <<>> THEN NoOptionsMsg
    ELSE JoinLines(TableHead \o [k \in 1..Len(opts) |-> RowOf(opts[k])])

(***************************************************************************)
(* Input files.  A file is a sequence of segments, one per line group;     *)
(* a segment is the text                                                   *)
(*     kw ws1 ( ws2 name ws3 "desc" ws4 def ws5 close                      *)
(* of the format option(<variable> "<help_text>" [value]), possibly behind *)
(* a comment marker or inside an if() block.  The pool holds a plain       *)
(* declaration and its variations, well formed and not.                    *)
(***************************************************************************)
Plain ==
    [ctx |-> "none", kw |-> <<"o","p","t","i","o","n">>, ws1 |-> <<>>,
     ws2 |-> <<>>, name |-> <<"A">>, ws3 |-> <<" ">>, desc |-> <<"d">>,
     ws4 |-> <<" ">>, def |-> <<"O","N">>, ws5 |-> <<>>, close |-> <<")">>]

KeywordChoices ==
    { <<"O","P","T","I","O","N">>, <<"O","p","t","i","o","N">>,
      <<"s","e","t">> }

NameChoices ==
    { <<"B">>, <<"x","_","1","-","Y">>, <<"A",".","B">> }

DescChoices ==
    { <<>>, <<"a","|","b">>, <<"(","x",")"," ","y">> }

DefChoices ==
    { <<>>, <<"O","F","F">>, <<"T","R","U","E">>, <<"F","A","L","S","E">>,
      <<"o","n">>, <<"T","r","u","e">>, <<"Y","E","S">> }

Pool ==
    {Plain}
    \cup {[Plain EXCEPT !.kw = x] : x \in KeywordChoices}
    \cup {[Plain EXCEPT !.ws1 = x] : x \in {<<" ">>, <<"\n">>}}
    \cup {[Plain EXCEPT !.ws2 = x] : x \in {<<" ">>, <<"\n">>}}
    \cup {[Plain EXCEPT !.name = x] : x \in NameChoices}
    \cup {[Plain EXCEPT !.ws3 = x] : x \in {<<>>, <<"\n">>, <<"\t"," ">>}}
    \cup {[Plain EXCEPT !.desc = x] : x \in DescChoices}
    \cup {[Plain EXCEPT !.ws4 = x] : x \in {<<>>, <<"\n">>}}
    \cup {[Plain EXCEPT !.def = x] : x \in DefChoices}
    \cup {[Plain EXCEPT !.ws5 = x] : x \in {<<" ">>, <<"\n">>}}
    \cup {[Plain EXCEPT !.close = <<>>]}
    \cup {[Plain EXCEPT !.ctx = x] : x \in {"comment", "cond"}}
    \cup {[Plain EXCEPT !.ctx = "comment", !.kw = <<"O","P","T","I","O","N">>,
                        !.ws1 = <<" ">>, !.ws2 = <<"\n">>,
                        !.name = <<"B">>, !.ws4 = <<>>,
                        !.def = <<"o","f","f">>, !.ws5 = <<"\n">>]}

\* the declaration text of a segment
RenderDecl(seg) ==
    seg.kw \o seg.ws1 \o <<"(">> \o seg.ws2 \o seg.name \o seg.ws3
        \o <<"\"">> \o seg.desc \o <<"\"">> \o seg.ws4 \o seg.def
        \o seg.ws5 \o seg.close

\* the lines of a segment: the declaration in its context
RenderSeg(seg) ==
    IF seg.ctx = "comment"
    THEN <<"#", " ">> \o RenderDecl(seg) \o <<"\n">>
    ELSE IF seg.ctx = "cond"
    THEN <<"i","f","(","X",")","\n"," "," ">> \o RenderDecl(seg)
             \o <<"\n","e","n","d","i","f","(",")","\n">>
    ELSE RenderDecl(seg) \o <<"\n">>

RECURSIVE RenderFile(_)
RenderFile(segs) ==
    IF segs = <<>> THEN <<>>
    ELSE RenderSeg(Head(segs)) \o RenderFile(Tail(segs))

SegmentLists == UNION {[1..n -> Pool] : n \in 0..MaxDecls}

\* the states a path can be in
MissingFile == [kind |-> "missing", readable |-> FALSE, content |-> <<>>]

Directory == [kind |-> "dir", readable |-> FALSE, content |-> <<>>]

ReadableFile(segs) ==
    [kind |-> "file", readable |-> TRUE, content |-> RenderFile(segs)]

UnreadableFile(segs) ==
    [kind |-> "file", readable |-> FALSE, content |-> RenderFile(segs)]

\* the file at the path the run does not name
SideSegs == << [Plain EXCEPT !.name = <<"S">>, !.def = <<>>] >>

\* the command lines: the program name, then the arguments
ArgvChoices == { <<"prog">>, <<"prog", OtherPathName>> }

NamedPath(av) == IF av = <<"prog">> THEN DefaultPathName ELSE OtherPathName

(***************************************************************************)
(* The run of main().                                                      *)
(***************************************************************************)
InitRun ==
    /\ pc = "start"
    /\ cmake_path = ""
    /\ options = <<>>
    /\ doxygen_doc = <<>>
    /\ stdout = <<>>
    /\ stderr = <<>>
    /\ exitCode = -1
    /\ calls = <<>>

Init ==
    /\ sys_argv \in ArgvChoices
    /\ \/ /\ decls \in SegmentLists
          /\ fs = [p \in Paths |->
                     IF p = NamedPath(sys_argv) THEN ReadableFile(decls)
                     ELSE ReadableFile(SideSegs)]
       \/ /\ decls \in {<<>>, <<Plain>>}
          /\ \E other \in {MissingFile, ReadableFile(SideSegs)} :
               fs = [p \in Paths |->
                       IF p = NamedPath(sys_argv) THEN UnreadableFile(decls)
                       ELSE other]
       \/ /\ decls = <<>>
          /\ \E other \in {MissingFile, ReadableFile(SideSegs)} :
               fs \in {[p \in Paths |->
                          IF p = NamedPath(sys_argv) THEN f ELSE other] :
                       f \in {MissingFile, Directory}}
    /\ InitRun

\* if len(sys.argv) > 1: sys.argv[1] else "CMakeLists.txt"
Resolve(av) == IF Len(av) > 1 THEN av[2] ELSE DefaultPathName

ResolvePath ==
    /\ pc = "start"
    /\ cmake_path' = Resolve(sys_argv)
    /\ pc' = "validate"
    /\ UNCHANGED <<sys_argv, fs, decls, options, doxygen_doc, stdout, stderr,
                   exitCode, calls>>

\* if not os.path.isfile(cmake_path): print to stderr, sys.exit(1)
ValidatePath ==
    /\ pc = "validate"
    /\ IF ~IsFile(fs[cmake_path])
       THEN /\ stderr' = Append(stderr, NotFoundLine(cmake_path))
            /\ exitCode' = 1
            /\ pc' = "exited"
       ELSE /\ pc' = "parse"
            /\ UNCHANGED <<stderr, exitCode>>
    /\ UNCHANGED <<sys_argv, fs, decls, cmake_path, options, doxygen_doc,
                   stdout, calls>>

\* options = parse_cmake_options(cmake_path)
Parse ==
    /\ pc = "parse"
    /\ LET r == ParseCMakeOptions(fs, cmake_path, stderr)
       IN  /\ options' = r.options
           /\ stderr' = r.stderr
    /\ calls' = Append(calls, "parse_cmake_options")
    /\ pc' = "format"
    /\ UNCHANGED <<sys_argv, fs, decls, cmake_path, doxygen_doc, stdout,
                   exitCode>>

\* doxygen_doc = generate_doxygen_table(options)
Format ==
    /\ pc = "format"
    /\ doxygen_doc' = GenerateDoxygenTable(options)
    /\ calls' = Append(calls, "generate_doxygen_table")
    /\ pc' = "print"
    /\ UNCHANGED <<sys_argv, fs, decls, cmake_path, options, stdout, stderr,
                   exitCode>>

\* print(doxygen_doc), after which main() returns and the process exits 0
PrintDoc ==
    /\ pc = "print"
    /\ stdout' = Append(stdout, doxygen_doc \o <<"\n">>)
    /\ exitCode' = 0
    /\ pc' = "exited"
    /\ UNCHANGED <<sys_argv, fs, decls, cmake_path, options, doxygen_doc,
                   stderr, calls>>

Next == ResolvePath \/ ValidatePath \/ Parse \/ Format \/ PrintDoc

Spec == Init /\ [][Next]_vars

(***************************************************************************)
(* Vocabulary of the properties.                                           *)
(***************************************************************************)
UpperSeq(t) == [k \in 1..Len(t) |-> ToUpper(t[k])]

LowerSeq(t) == [k \in 1..Len(t) |-> ToLower(t[k])]

TokenSet ==
    { <<"O","N">>, <<"O","F","F">>, <<"T","R","U","E">>,
      <<"F","A","L","S","E">> }

\* the file the command line names, and what the run can do with it
InputFile == fs[NamedPath(sys_argv)]

InputIsRegularFile == InputFile.kind = "file"

InputIsRead == InputFile.kind = "file" /\ InputFile.readable

Extracted == pc \in {"format", "print", "exited"}

Formatted == pc \in {"print", "exited"}

\* a segment that follows the grammar, with the whitespace rule given for
\* the boundary between the name and the quoted description
FollowsGrammar(seg, sepMayBeEmpty) ==
    /\ LowerSeq(seg.kw) = <<"o","p","t","i","o","n">>
    /\ \A w \in {seg.ws1, seg.ws2, seg.ws3, seg.ws4, seg.ws5} :
         \A k \in 1..Len(w) : IsSpace(w[k])
    /\ seg.name # <<>>
    /\ \A k \in 1..Len(seg.name) : IsNameChar(seg.name[k])
    /\ sepMayBeEmpty \/ seg.ws3 # <<>>
    /\ \A k \in 1..Len(seg.desc) : seg.desc[k] # "\""
    /\ seg.def = <<>> \/ UpperSeq(seg.def) \in TokenSet
    /\ seg.close = <<")">>

\* well formed: at least one whitespace character after the name
WellFormed(seg) == FollowsGrammar(seg, FALSE)

\* well formed when every token boundary may be empty
WellFormedLoose(seg) == FollowsGrammar(seg, TRUE)

\* the record a declaration stands for, as written in the text
WrittenRecord(seg) ==
    [name |-> seg.name, description |-> seg.desc,
     default |-> IF seg.def = <<>> THEN <<"O","F","F">> ELSE seg.def]

RECURSIVE WrittenRecords(_, _)
WrittenRecords(segs, loose) ==
    IF segs = <<>> THEN <<>>
    ELSE IF FollowsGrammar(Head(segs), loose)
    THEN <<WrittenRecord(Head(segs))>> \o WrittenRecords(Tail(segs), loose)
    ELSE WrittenRecords(Tail(segs), loose)

Declared == WrittenRecords(decls, FALSE)

\* the number of lines of a printed text: each line ends in a line break
LineCount(text) == Cardinality({k \in 1..Len(text) : text[k] = "\n"})

\* the table the declarations are documented as, written out line by line
RECURSIVE RowsText(_)
RowsText(recs) ==
    IF recs = <<>> THEN <<>>
    ELSE <<"|", " ">> \o Head(recs).name \o <<" ", "|", " ">>
           \o Head(recs).description \o <<" ", "|", " ">>
           \o Head(recs).default \o <<" ", "|", "\n">>
           \o RowsText(Tail(recs))

TableText(recs) ==
    IntroLine \o <<"\n", "\n">> \o HeaderLine \o <<"\n">> \o SeparatorLine
        \o <<"\n">> \o PrefixLine \o <<"\n">> \o RowsText(recs)

(***************************************************************************)
(* C1: when the input text holds n >= 1 well-formed declarations, standard *)
(* output is the explanatory sentence, a blank line, the header row, the   *)
(* separator row, the CMAKE_INSTALL_PREFIX row and then exactly n rows,    *)
(* one per declaration in document order, each with the declaration's      *)
(* name, description and default as written, OFF where no default token is *)
(* written.                                                                *)
(***************************************************************************)
C1_TableOfDeclarations ==
    (pc = "exited" /\ InputIsRead /\ Len(Declared) >= 1)
        => stdout = <<TableText(Declared)>>

C1_Witness ==
    /\ pc = "exited"
    /\ InputIsRead
    /\ Len(decls) = 2
    /\ Len(Declared) = 2
    /\ decls[1].def = <<"T","R","U","E">>
    /\ decls[2].def = <<>>
    /\ Len(stdout) = 1

(***************************************************************************)
(* C2: when the resolved path does not name an existing regular file, the  *)
(* run ends with exit status 1, nothing is written to standard output and  *)
(* neither the extractor nor the formatter is invoked.                     *)
(***************************************************************************)
C2_NotAFile ==
    ~InputIsRegularFile
        => /\ stdout = <<>>
           /\ calls = <<>>
           /\ pc \in {"start", "validate", "exited"}
           /\ pc = "exited" => exitCode = 1

C2_Witness ==
    /\ pc = "exited"
    /\ InputFile.kind = "dir"
    /\ sys_argv = <<"prog">>
    /\ exitCode = 1

(***************************************************************************)
(* C3: when the path is a regular file but reading it fails, the extractor *)
(* returns the empty sequence, the formatter still runs, standard output   *)
(* receives exactly the sentence "No CMake options found." and a line      *)
(* break, and the run ends with status 0.                                  *)
(***************************************************************************)
C3_ReadFailure ==
    (InputIsRegularFile /\ ~InputFile.readable)
        => /\ Extracted => options = <<>>
           /\ pc = "exited"
                => /\ calls = <<"parse_cmake_options",
                                "generate_doxygen_table">>
                   /\ stdout = <<NoOptionsMsg \o <<"\n">> >>
                   /\ exitCode = 0

C3_Witness ==
    /\ pc = "exited"
    /\ InputIsRegularFile
    /\ ~InputFile.readable
    /\ decls = <<Plain>>
    /\ exitCode = 0

(***************************************************************************)
(* C4: the number of table rows printed after the five fixed lines equals  *)
(* the number of matches of the pattern in the text that was read; no      *)
(* match is dropped and no two are merged, also when names repeat.         *)
(***************************************************************************)
PrintedRows ==
    IF LineCount(stdout[1]) <= Len(TableHead) THEN 0
    ELSE LineCount(stdout[1]) - Len(TableHead)

C4_RowPerMatch ==
    (pc = "exited" /\ InputIsRead)
        => PrintedRows = Len(FindIter(InputFile.content, 1))

C4_Witness ==
    /\ pc = "exited"
    /\ InputIsRead
    /\ Len(decls) = 2
    /\ decls[1].name = decls[2].name
    /\ decls[1] # decls[2]
    /\ PrintedRows = 2

(***************************************************************************)
(* C5: when the input text holds no well-formed declaration, the formatter *)
(* output is exactly the sentence "No CMake options found.": no            *)
(* explanatory sentence, header, separator or CMAKE_INSTALL_PREFIX row.    *)
(***************************************************************************)
C5_NoDeclarations ==
    (Formatted /\ InputIsRead /\ Declared = <<>>)
        => doxygen_doc = NoOptionsMsg

C5_Witness ==
    /\ Formatted
    /\ InputIsRead
    /\ Len(decls) = 2
    /\ Declared = <<>>
    /\ decls[1].ws3 = <<>>
    /\ decls[2].close = <<>>
    /\ doxygen_doc = NoOptionsMsg

(***************************************************************************)
(* C6, as stated: a declaration is recognised with zero or more whitespace *)
(* characters at every token boundary, the boundary between the name and   *)
(* the quoted description included, so that every declaration that is well *)
(* formed with any boundary empty yields a record.                         *)
(***************************************************************************)
C6_AnyBoundaryMayBeEmpty ==
    (Extracted /\ InputIsRead) => options = WrittenRecords(decls, TRUE)

(***************************************************************************)
(* C6, amended: a declaration is recognised with zero or more whitespace   *)
(* characters between the keyword and the parenthesis, between the         *)
(* parenthesis and the name, after the quoted description and before the   *)
(* closing parenthesis, and with one or more between the name and the      *)
(* opening quote; a declaration with none there yields no record.          *)
(***************************************************************************)
C6_WhitespaceAtBoundaries ==
    (Extracted /\ InputIsRead) => options = WrittenRecords(decls, FALSE)

C6_Witness ==
    /\ Extracted
    /\ InputIsRead
    /\ Len(decls) = 2
    /\ decls[1].ws3 = <<>>
    /\ WellFormedLoose(decls[1])
    /\ decls[2].ws1 = <<" ">>
    /\ decls[2].ws2 = <<"\n">>
    /\ decls[2].ws5 = <<"\n">>
    /\ Len(options) = 1
    /\ options[1].name = decls[2].name

(***************************************************************************)
(* C7, as stated: the default of every extracted record is exactly one of  *)
(* the four tokens ON, OFF, TRUE, FALSE.                                   *)
(***************************************************************************)
C7_DefaultIsExactToken ==
    \A k \in 1..Len(options) : options[k].default \in TokenSet

(***************************************************************************)
(* C7, amended: the default of every extracted record is one of the four   *)
(* tokens ON, OFF, TRUE, FALSE up to letter case: it is the token in the   *)
(* spelling the text has, or OFF when the text has no default token.       *)
(***************************************************************************)
C7_DefaultIsTokenUpToCase ==
    \A k \in 1..Len(options) : UpperSeq(options[k].default) \in TokenSet

C7_Witness ==
    /\ Extracted
    /\ Len(options) = 2
    /\ options[1].default = <<"T","r","u","e">>
    /\ decls[2].def = <<>>
    /\ options[2].default = <<"O","F","F">>

(***************************************************************************)
(* C8: changing the letter case of the keyword and of the default token of *)
(* the declarations changes neither which declarations are matched nor the *)
(* name and description of their records, and the default of a record is   *)
(* the default token in the letter case the text has.                      *)
(***************************************************************************)
CanonicalCase(segs) ==
    [k \in 1..Len(segs) |->
       [segs[k] EXCEPT !.kw = LowerSeq(@), !.def = UpperSeq(@)]]

C8_CaseInsensitive ==
    (Extracted /\ InputIsRead)
        => LET canon == ExtractOptions(RenderFile(CanonicalCase(decls)))
           IN  /\ Len(options) = Len(canon)
               /\ Len(options) = Len(Declared)
               /\ \A k \in 1..Len(options) :
                    /\ options[k].name = canon[k].name
                    /\ options[k].description = canon[k].description
                    /\ UpperSeq(options[k].default) = canon[k].default
                    /\ options[k].default = Declared[k].default

C8_Witness ==
    /\ Extracted
    /\ InputIsRead
    /\ Len(decls) = 2
    /\ decls[1].kw = <<"O","P","T","I","O","N">>
    /\ decls[1].def = <<"o","f","f">>
    /\ decls[2].def = <<"o","n">>
    /\ Len(options) = 2
    /\ options[1].default = <<"o","f","f">>
    /\ options[2].default = <<"o","n">>

(***************************************************************************)
(* C9: diagnostics go only to the error channel and the table or the       *)
(* empty-result sentence only to standard output; a run with a failure     *)
(* (path not found, read failure) writes exactly one diagnostic line, a    *)
(* run without failure writes none, and standard output is written at most *)
(* once, only after the path was validated and extraction has finished.    *)
(***************************************************************************)
C9_Channels ==
    /\ \A k \in 1..Len(stderr) :
         stderr[k] \in {NotFoundLine(cmake_path), ReadErrorLine(cmake_path)}
    /\ \A k \in 1..Len(stdout) : stdout[k] = doxygen_doc \o <<"\n">>
    /\ Len(stdout) <= 1
    /\ stdout # <<>>
         => /\ InputIsRegularFile
            /\ calls = <<"parse_cmake_options", "generate_doxygen_table">>
            /\ pc = "exited"
    /\ pc = "exited" => Len(stderr) = (IF InputIsRead THEN 0 ELSE 1)
    /\ InputIsRead => stderr = <<>>

C9_Witness ==
    /\ pc = "exited"
    /\ InputIsRegularFile
    /\ ~InputIsRead
    /\ Len(stderr) = 1
    /\ Len(stdout) = 1

(***************************************************************************)
(* C10: a declaration behind a comment marker on its line, or inside a     *)
(* conditional block, is matched exactly when the same declaration         *)
(* standing alone is, and yields the same record at the same position of   *)
(* the sequence.                                                           *)
(***************************************************************************)
StandingAlone(segs) ==
    [k \in 1..Len(segs) |-> [segs[k] EXCEPT !.ctx = "none"]]

C10_ContextIndependent ==
    (Extracted /\ InputIsRead)
        => options = ExtractOptions(RenderFile(StandingAlone(decls)))

C10_Witness ==
    /\ Extracted
    /\ InputIsRead
    /\ Len(decls) = 2
    /\ decls[1].ctx = "comment"
    /\ decls[2].ctx = "cond"
    /\ Len(options) = 2

====
